---- MODULE Spec2Model ----
(***************************************************************************)
(* State machine of src/src/components/PyrolysisSimulator.tsx: one React   *)
(* component whose state is a set of useState cells and two useRef         *)
(* counters.  One action per DOM event handler and per timer tick; the     *)
(* useEffect bodies that run after a state change are part of the action   *)
(* that made the change.                                                   *)
(*                                                                         *)
(* Number representation.  JavaScript numbers are IEEE-754 doubles.        *)
(*   - values that are integers in the program are integers here;          *)
(*   - gasTemp is a multiple of 0.5 and is stored in half degrees          *)
(*     (TempScale), which is exact;                                        *)
(*   - coolingTime is the double produced by repeated addition of 0.1;     *)
(*     it is stored exactly, as the integer coolingTime * 2^56 split into  *)
(*     two limbs <<hi, lo>> of 30 bits, and the addition rounds to 53      *)
(*     significant bits, ties to even, as the hardware does;               *)
(*   - condensedFuel is stored as the exact rational scaled by 10^7        *)
(*     (the double rounding of that product chain is not modelled);        *)
(*   - NaN is one integer outside every value the program computes.        *)
(***************************************************************************)
EXTENDS Integers, Sequences, FiniteSets, TLC

(***************************************************************************)
(* Bounds of the model (not program constants).                            *)
(***************************************************************************)
\* longest text typed into a number field
MaxLen == 2
\* the sliders are moved in this many equal steps over their range
SliderSteps == 2
\* how many cells past the first not fully heated cell (row-major) the
\* pointer may reach
Reach == 1
\* number of different Math.random() roll sequences for the product queue
MaxSeeds == 1
\* cap on the particle id counter: the random roll of a cooling tick
\* spawns a particle only below it
MaxParticles == 1
\* cap on the losses counter for drops that carry no product
MaxForeignLosses == 1

\* characters a user types into a number field
Chars == {"5", "-", ".", "x"}

(***************************************************************************)
(* Program constants.                                                      *)
(***************************************************************************)
GridSize == 10
QueueLength == 15
CoolingLimit == 15
SliderMin == 0
SliderMax == 100
InitialGasTemp == 600
InitialRatio == 50
InitialPower == 50
CompletenessGate == 70

ProductTypes == {"liquidFuel", "syngas", "biochar"}

(***************************************************************************)
(* JavaScript numbers: NaN and the operators the handlers use.             *)
(***************************************************************************)
NaN == -(2^30)

\* a || b on numbers: NaN and 0 are falsy
OrElse(a, b) == IF a = NaN \/ a = 0 THEN b ELSE a

MathMin(a, b) == IF a = NaN \/ b = NaN THEN NaN ELSE IF a < b THEN a ELSE b

MathMax(a, b) == IF a = NaN \/ b = NaN THEN NaN ELSE IF a > b THEN a ELSE b

Minus(a, b) == IF a = NaN \/ b = NaN THEN NaN ELSE a - b

Abs(a) == IF a < 0 THEN -a ELSE a

(***************************************************************************)
(* Texts are sequences of one-character strings.                           *)
(***************************************************************************)
Digits == <<"0", "1", "2", "3", "4", "5", "6", "7", "8", "9">>

IsDigit(c) == \E d \in 1..10 : Digits[d] = c

DigitValue(c) == (CHOOSE d \in 1..10 : Digits[d] = c) - 1

RECURSIVE TextsOfLength(_)
TextsOfLength(n) ==
  IF n = 0 THEN {<<>>}
  ELSE {Append(t, c) : t \in TextsOfLength(n - 1), c \in Chars}

Texts == UNION {TextsOfLength(n) : n \in 0..MaxLen}

\* index of the first character at or after i that is not a digit
RECURSIVE DigitsEnd(_, _)
DigitsEnd(s, i) ==
  IF i <= Len(s) /\ IsDigit(s[i]) THEN DigitsEnd(s, i + 1) ELSE i

RECURSIVE DigitsValue(_, _, _, _)
DigitsValue(s, i, j, acc) ==
  IF i >= j THEN acc ELSE DigitsValue(s, i + 1, j, acc * 10 + DigitValue(s[i]))

RECURSIVE SkipSpace(_, _)
SkipSpace(s, i) ==
  IF i <= Len(s) /\ s[i] = " " THEN SkipSpace(s, i + 1) ELSE i

\* parseInt(s), radix 10: leading white space, an optional sign, then the
\* longest run of digits; NaN when there is no digit
parseInt(s) ==
  LET i0 == SkipSpace(s, 1)
      signed == i0 <= Len(s) /\ s[i0] \in {"-", "+"}
      i1 == IF signed THEN i0 + 1 ELSE i0
      i2 == DigitsEnd(s, i1)
      v == DigitsValue(s, i1, i2, 0)
  IN IF i2 = i1 THEN NaN
     ELSE IF signed /\ s[i0] = "-" THEN -v ELSE v

RECURSIVE DigitsOf(_)
DigitsOf(n) ==
  IF n < 10 THEN <<Digits[n + 1]>>
  ELSE Append(DigitsOf(n \div 10), Digits[(n % 10) + 1])

\* Number.prototype.toString of an integer-valued number or NaN
toString(n) ==
  IF n = NaN THEN <<"N", "a", "N">>
  ELSE IF n < 0 THEN <<"-">> \o DigitsOf(-n)
  ELSE DigitsOf(n)

\* HTML "valid floating-point number": -? digits (. digits)? | -? . digits,
\* then an optional exponent
IsValidFloat(s) ==
  LET i0 == IF Len(s) >= 1 /\ s[1] = "-" THEN 2 ELSE 1
      i1 == DigitsEnd(s, i0)
      dot == i1 <= Len(s) /\ s[i1] = "."
      i2 == IF dot THEN DigitsEnd(s, i1 + 1) ELSE i1
      mantissa == IF dot THEN i2 > i1 + 1 ELSE i1 > i0
      ex == i2 <= Len(s) /\ s[i2] \in {"e", "E"}
      i3 == IF ex /\ i2 + 1 <= Len(s) /\ s[i2 + 1] \in {"-", "+"}
            THEN i2 + 2 ELSE i2 + 1
      i4 == IF ex THEN DigitsEnd(s, i3) ELSE i2
  IN mantissa /\ (ex => i4 > i3) /\ i4 = Len(s) + 1

\* e.target.value of <input type="number">: the typed text when it is a
\* valid floating-point number, the empty string otherwise
NumberFieldValue(text) == IF IsValidFloat(text) THEN text ELSE <<>>

\* positions of an <input type="range" min="0" max="100"> (step 1)
SliderPositions ==
  {SliderMin + (k * (SliderMax - SliderMin)) \div SliderSteps : k \in 0..SliderSteps}

\* e.target.value of the range input at a position
RangeValue(pos) == toString(pos)

(***************************************************************************)
(* Doubles in [0, 16) that are multiples of 2^-56, as <<hi, lo>> with      *)
(* value = (hi * 2^30 + lo) * 2^-56.                                       *)
(***************************************************************************)
Limb == 2^30

\* the double nearest to 0.1: 7205759403792794 * 2^-56
Tenth == <<6710886, 429496730>>

Zero == <<0, 0>>

Fifteen == <<CoolingLimit * 2^26, 0>>

\* spacing of the doubles around a value with high limb hi: 53 significant
\* bits, so 1 below 2^53 (hi < 2^23) and doubling with every binade
RECURSIVE UlpOf(_, _)
UlpOf(hi, u) == IF hi < (2^23) * u THEN u ELSE UlpOf(hi, 2 * u)

\* a + b in double arithmetic: the exact sum rounded to nearest, ties to even
FloatAdd(a, b) ==
  LET lo == a[2] + b[2]
      hi == a[1] + b[1] + (lo \div Limb)
      l == lo % Limb
      u == UlpOf(hi, 1)
      r == l % u
      odd == (l \div u) % 2 = 1
      up == 2 * r > u \/ (2 * r = u /\ odd)
      l2 == IF up THEN l - r + u ELSE l - r
  IN <<hi + (l2 \div Limb), l2 % Limb>>

FloatGeq(a, b) == a[1] > b[1] \/ (a[1] = b[1] /\ a[2] >= b[2])

FloatLess(a, b) == ~FloatGeq(a, b)

(***************************************************************************)
(* The component's state: lines 12-33.                                     *)
(***************************************************************************)
VARIABLES
  stage,                  \* 0..5
  plasticRatio,
  heatGrid,               \* [Cells -> number]
  coolingPower,
  gasTemp,                \* in half degrees: gasTemp = TempScale * degrees
  isDragging,
  coolingTime,            \* a double, <<hi, lo>>
  coolingStarted,
  condensedFuel,          \* scaled by FuelScale
  condensationParticles,  \* sequence of particle ids (x and speed are
                          \* random numbers used only to draw)
  sortingProgress,        \* [biochar, syngas, liquidFuel]
  sortingComplete,
  spawnedProducts,        \* sequence of [id, type] (x and spawnTime are
                          \* used only to draw)
  losses,
  productQueue,           \* sequence of product types
  totalSpawned,
  particleIdRef,
  spawnIdRef,
  touchDragType,          \* a product type or "null"
  touchDragId,            \* <<>> for null, <<id>> otherwise
  event                   \* the DOM event or timer tick handled last
                          \* (not program state: it names the step taken)

vars ==
  <<stage, plasticRatio, heatGrid, coolingPower, gasTemp, isDragging,
    coolingTime, coolingStarted, condensedFuel, condensationParticles,
    sortingProgress, sortingComplete, spawnedProducts, losses, productQueue,
    totalSpawned, particleIdRef, spawnIdRef, touchDragType, touchDragId,
    event>>

feedVars == <<plasticRatio>>

heatVars == <<heatGrid, isDragging>>

sortVars ==
  <<sortingProgress, sortingComplete, spawnedProducts, losses, productQueue,
    totalSpawned, spawnIdRef, touchDragType, touchDragId>>

coolVars ==
  <<coolingPower, gasTemp, coolingTime, coolingStarted, condensedFuel,
    condensationParticles, particleIdRef>>

TempScale == 2

FuelScale == 10000000

Cells == (0..(GridSize - 1)) \X (0..(GridSize - 1))

EmptyGrid == [cell \in Cells |-> 0]

NoProgress == [biochar |-> 0, syngas |-> 0, liquidFuel |-> 0]

biomassRatio == 100 - plasticRatio

Init ==
  /\ stage = 0
  /\ plasticRatio = InitialRatio
  /\ heatGrid = EmptyGrid
  /\ coolingPower = InitialPower
  /\ gasTemp = TempScale * InitialGasTemp
  /\ isDragging = FALSE
  /\ coolingTime = Zero
  /\ coolingStarted = FALSE
  /\ condensedFuel = 0
  /\ condensationParticles = <<>>
  /\ sortingProgress = NoProgress
  /\ sortingComplete = FALSE
  /\ spawnedProducts = <<>>
  /\ losses = 0
  /\ productQueue = <<>>
  /\ totalSpawned = 0
  /\ particleIdRef = 0
  /\ spawnIdRef = 0
  /\ touchDragType = "null"
  /\ touchDragId = <<>>
  /\ event = [type |-> "mount"]

(***************************************************************************)
(* Stage 0 and stage 1: landing and feedstock selection.                   *)
(***************************************************************************)
\* START MISSION, rendered only while stage = 0
\* a variant that opens the heating screen at once
StartMission_SkipFeed ==
  /\ stage = 0
  /\ stage' = 2
  /\ UNCHANGED <<feedVars, heatVars, sortVars, coolVars>>

StartMission ==
  /\ stage = 0
  /\ stage' = 1
  /\ UNCHANGED <<feedVars, heatVars, sortVars, coolVars>>

\* the value handlePlasticChange stores for val (already a text)
\* a variant without Math.max and Math.min
clampedRatio_Unclamped(text) == OrElse(parseInt(text), 0)

\* a variant without the || 0 guard
clampedRatio_Unguarded(text) == MathMax(0, MathMin(100, parseInt(text)))

clampedRatio(text) ==
  MathMax(0, MathMin(100, OrElse(parseInt(text), 0)))

handlePlasticChange(text) ==
  /\ plasticRatio' = clampedRatio(text)
  /\ UNCHANGED <<stage, heatVars, sortVars, coolVars>>

\* plastic number field: handlePlasticChange(e.target.value)
PlasticFieldChange(text) ==
  /\ stage = 1
  /\ handlePlasticChange(NumberFieldValue(text))

\* plastic slider: handlePlasticChange(e.target.value)
PlasticSliderChange(pos) ==
  /\ stage = 1
  /\ handlePlasticChange(RangeValue(pos))

\* biomass number field:
\* handlePlasticChange(100 - (parseInt(e.target.value) || 0))
BiomassFieldChange(text) ==
  /\ stage = 1
  /\ handlePlasticChange(
       toString(Minus(100, OrElse(parseInt(NumberFieldValue(text)), 0))))

\* biomass slider: handlePlasticChange(100 - parseInt(e.target.value))
BiomassSliderChange(pos) ==
  /\ stage = 1
  /\ handlePlasticChange(toString(Minus(100, parseInt(RangeValue(pos)))))

\* START PROCESS, rendered only while stage = 1
StartProcess ==
  /\ stage = 1
  /\ stage' = 2
  /\ UNCHANGED <<feedVars, heatVars, sortVars, coolVars>>

(***************************************************************************)
(* Stage 2: the heating grid.                                              *)
(***************************************************************************)
RECURSIVE SumCells(_, _)
SumCells(g, k) ==
  IF k = 0 THEN 0
  ELSE g[<<(k - 1) \div GridSize, (k - 1) % GridSize>>] + SumCells(g, k - 1)

totalHeat(g) == SumCells(g, GridSize * GridSize)

\* completeness = min(100, (avgHeat / 80) * 100) with avgHeat = totalHeat/100,
\* kept as the numerator over 80: completeness = completeness80 / 80.
\* (For every grid of multiples of 50 the double comparison with 70 agrees
\* with the exact one.)
completeness80(g) == MathMin(100 * 80, totalHeat(g))

\* twice the deviation of a cell from avgHeat = totalHeat / 100; exact, the
\* cells being multiples of 50
twiceDeviation(val, total) == (100 * val - total) \div 50

\* sum over the first k cells of (val - avgHeat)^2, times 4
RECURSIVE SumSquares(_, _, _)
SumSquares(g, k, total) ==
  IF k = 0 THEN 0
  ELSE twiceDeviation(g[<<(k - 1) \div GridSize, (k - 1) % GridSize>>], total) ^ 2
         + SumSquares(g, k - 1, total)

\* variance = sum of (val - avgHeat)^2 / 100, times 400
variance400(g) ==
  CHOOSE v \in {SumSquares(g, GridSize * GridSize, total) : total \in {totalHeat(g)}} :
    TRUE

\* the largest r in lo..hi with r * r <= x
RECURSIVE RootIn(_, _, _)
RootIn(x, lo, hi) ==
  IF lo >= hi THEN lo
  ELSE LET mid == (lo + hi + 1) \div 2
       IN IF mid * mid <= x THEN RootIn(x, mid, hi) ELSE RootIn(x, lo, mid - 1)

\* a variant that takes the variance for the standard deviation
stdDev100_NoRoot(g) == variance400(g) \div 4

\* stdDev = Math.sqrt(variance), in hundredths, rounded down
stdDev100(g) ==
  CHOOSE r \in {RootIn(x, 0, 20000) : x \in {25 * variance400(g)}} : TRUE

\* uniformity = Math.max(0, 100 - stdDev), in hundredths (rounded up when
\* stdDev is not a whole number of hundredths)
uniformity100(g) == MathMax(0, 100 * 100 - stdDev100(g))

\* a variant without Math.min
heatedGrid_Uncapped(g, row, col) ==
  [g EXCEPT ![<<row, col>>] = g[<<row, col>>] + 50]

heatedGrid(g, row, col) ==
  [g EXCEPT ![<<row, col>>] = MathMin(100, g[<<row, col>>] + 50)]

handleCellInteraction(row, col) ==
  IF stage # 2 THEN heatGrid' = heatGrid
  ELSE heatGrid' = heatedGrid(heatGrid, row, col)

handleMouseDown(row, col) ==
  /\ stage = 2
  /\ isDragging' = TRUE
  /\ handleCellInteraction(row, col)
  /\ UNCHANGED <<stage, feedVars, sortVars, coolVars>>

handleMouseEnter(row, col) ==
  /\ stage = 2
  /\ IF isDragging \/ stage = 2
     THEN handleCellInteraction(row, col)
     ELSE heatGrid' = heatGrid
  /\ UNCHANGED <<stage, isDragging, feedVars, sortVars, coolVars>>

\* onMouseUp and onMouseLeave of the grid
handleMouseUp ==
  /\ stage = 2
  /\ isDragging' = FALSE
  /\ UNCHANGED <<stage, heatGrid, feedVars, sortVars, coolVars>>

\* onTouchStart of a cell, and handleTouchGrid when the touch is over a cell
handleTouchGrid(row, col) ==
  /\ stage = 2
  /\ handleCellInteraction(row, col)
  /\ UNCHANGED <<stage, isDragging, feedVars, sortVars, coolVars>>

(***************************************************************************)
(* Stage 3: the product queue, the spawn timer and the bins.               *)
(***************************************************************************)
\* getProductProbabilities, in units of 1/10000:
\* oilProb = pFrac * 0.65 + bFrac * 0.25, gasProb = pFrac * 0.25 + bFrac * 0.35
oilProb(p) == p * 65 + (100 - p) * 25

gasProb(p) == p * 25 + (100 - p) * 35

\* the i-th Math.random() roll of roll sequence seed, in units of 1/10000;
\* a roll never equals a threshold (the thresholds are multiples of 10)
Roll(seed, i) == (seed * 3100 + i * 4700 + 7) % 10000

\* a variant that tests the syngas interval first
productTypeOf_GasFirst(roll, p) ==
  IF roll < gasProb(p) THEN "syngas"
  ELSE IF roll < oilProb(p) + gasProb(p) THEN "liquidFuel"
  ELSE "biochar"

productTypeOf(roll, p) ==
  IF roll < oilProb(p) THEN "liquidFuel"
  ELSE IF roll < oilProb(p) + gasProb(p) THEN "syngas"
  ELSE "biochar"

\* the queue the effect of lines 51-65 builds
generateQueue(seed, p) ==
  [i \in 1..QueueLength |-> productTypeOf(Roll(seed, i - 1), p)]

\* a variant of the button that is never disabled
ProceedToSorting_Ungated(seed) ==
  /\ stage = 2
  /\ stage' = 3
  /\ productQueue' =
       IF Len(productQueue) = 0 THEN generateQueue(seed, plasticRatio)
       ELSE productQueue
  /\ UNCHANGED <<feedVars, heatVars, coolVars, sortingProgress,
                 sortingComplete, spawnedProducts, losses, totalSpawned,
                 spawnIdRef, touchDragType, touchDragId>>

\* PROCEED TO SORTING, disabled while completeness < 70; the queue effect
\* runs in the render that follows
ProceedToSorting(seed) ==
  /\ stage = 2
  /\ ~(completeness80(heatGrid) < CompletenessGate * 80)
  /\ stage' = 3
  /\ productQueue' =
       IF Len(productQueue) = 0 THEN generateQueue(seed, plasticRatio)
       ELSE productQueue
  /\ UNCHANGED <<feedVars, heatVars, coolVars, sortingProgress,
                 sortingComplete, spawnedProducts, losses, totalSpawned,
                 spawnIdRef, touchDragType, touchDragId>>

totalSortedOf(sp) == sp.biochar + sp.syngas + sp.liquidFuel

\* a variant that does not count the losses
completionEffect_SortedOnly(sp, l, t, sc) ==
  IF totalSortedOf(sp) >= QueueLength /\ t >= QueueLength THEN TRUE ELSE sc

\* a variant that only waits for the last product to spawn
completionEffect_SpawnedOnly(sp, l, t, sc) ==
  IF t >= QueueLength THEN TRUE ELSE sc

\* the completion effect of lines 88-93, run after a render with the new
\* sortingProgress, losses and totalSpawned
completionEffect(sp, l, t, sc) ==
  IF totalSortedOf(sp) + l >= QueueLength /\ t >= QueueLength THEN TRUE ELSE sc

\* the spawn interval of lines 68-85 is armed and its tick has a product to
\* spawn (line 72)
spawnTimerArmed ==
  /\ ~(stage # 3 \/ sortingComplete \/ Len(productQueue) = 0)
  /\ ~(totalSpawned >= QueueLength)

\* one tick of the spawn interval
\* a variant that gives every product the id 0
SpawnTick_SameId ==
  /\ spawnTimerArmed
  /\ spawnedProducts' =
       Append(spawnedProducts,
              [id |-> 0, type |-> productQueue[totalSpawned + 1]])
  /\ spawnIdRef' = spawnIdRef
  /\ totalSpawned' = totalSpawned + 1
  /\ sortingComplete' =
       completionEffect(sortingProgress, losses, totalSpawned', sortingComplete)
  /\ UNCHANGED <<stage, feedVars, heatVars, coolVars, sortingProgress, losses,
                 productQueue, touchDragType, touchDragId>>

\* a variant that also shows a particle for the new product
SpawnTick_WithParticle ==
  /\ spawnTimerArmed
  /\ spawnedProducts' =
       Append(spawnedProducts,
              [id |-> spawnIdRef, type |-> productQueue[totalSpawned + 1]])
  /\ spawnIdRef' = spawnIdRef + 1
  /\ totalSpawned' = totalSpawned + 1
  /\ condensationParticles' = Append(condensationParticles, spawnIdRef)
  /\ sortingComplete' =
       completionEffect(sortingProgress, losses, totalSpawned', sortingComplete)
  /\ UNCHANGED <<stage, feedVars, heatVars, coolingPower, gasTemp, coolingTime,
                 coolingStarted, condensedFuel, particleIdRef, sortingProgress,
                 losses, productQueue, touchDragType, touchDragId>>

SpawnTick ==
  /\ spawnTimerArmed
  /\ IF totalSpawned >= QueueLength
     THEN UNCHANGED <<totalSpawned, spawnedProducts, spawnIdRef>>
     ELSE /\ spawnedProducts' =
               Append(spawnedProducts,
                      [id |-> spawnIdRef, type |-> productQueue[totalSpawned + 1]])
          /\ spawnIdRef' = spawnIdRef + 1
          /\ totalSpawned' = totalSpawned + 1
  /\ sortingComplete' =
       completionEffect(sortingProgress, losses, totalSpawned', sortingComplete)
  /\ UNCHANGED <<stage, feedVars, heatVars, coolVars, sortingProgress, losses,
                 productQueue, touchDragType, touchDragId>>

RECURSIVE withoutId(_, _)
withoutId(ps, id) ==
  IF ps = <<>> THEN <<>>
  ELSE IF Head(ps).id # id THEN <<Head(ps)>> \o withoutId(Tail(ps), id)
  ELSE withoutId(Tail(ps), id)

\* a variant that counts every drop for the bin it lands on
handleDrop_AlwaysCounts(binType, productType, productId) ==
  /\ sortingProgress' =
       [sortingProgress EXCEPT ![binType] = sortingProgress[binType] + 1]
  /\ losses' = losses
  /\ spawnedProducts' = withoutId(spawnedProducts, productId)
  /\ sortingComplete' =
       completionEffect(sortingProgress', losses', totalSpawned, sortingComplete)

\* a variant that removes a product dropped on the wrong bin without
\* counting it
handleDrop_NoLoss(binType, productType, productId) ==
  /\ IF productType = binType
     THEN sortingProgress' =
            [sortingProgress EXCEPT ![binType] = sortingProgress[binType] + 1]
     ELSE sortingProgress' = sortingProgress
  /\ losses' = losses
  /\ spawnedProducts' = withoutId(spawnedProducts, productId)
  /\ sortingComplete' =
       completionEffect(sortingProgress', losses', totalSpawned, sortingComplete)

\* handleDrop(binType, productType, productId), with the completion effect
handleDrop(binType, productType, productId) ==
  /\ IF productType = binType
     THEN /\ sortingProgress' =
               [sortingProgress EXCEPT ![binType] = sortingProgress[binType] + 1]
          /\ losses' = losses
     ELSE /\ losses' = losses + 1
          /\ sortingProgress' = sortingProgress
  /\ spawnedProducts' = withoutId(spawnedProducts, productId)
  /\ sortingComplete' =
       completionEffect(sortingProgress', losses', totalSpawned, sortingComplete)

onScreen == {spawnedProducts[i] : i \in 1..Len(spawnedProducts)}

\* onDrop of a bin for a dragged product: dataTransfer carries the type and
\* the id (as text) that onDragStart stored
DropProduct(binType, product) ==
  /\ stage = 3
  /\ product \in onScreen
  /\ handleDrop(binType, product.type, parseInt(toString(product.id)))
  /\ UNCHANGED <<stage, feedVars, heatVars, coolVars, productQueue,
                 totalSpawned, spawnIdRef, touchDragType, touchDragId>>

\* onDrop of a bin for a drag that is not a product (selected text, a file):
\* getData returns "" for both keys, so the id is parseInt("") = NaN
DropForeign(binType) ==
  /\ stage = 3
  /\ handleDrop(binType, "", parseInt(<<>>))
  /\ UNCHANGED <<stage, feedVars, heatVars, coolVars, productQueue,
                 totalSpawned, spawnIdRef, touchDragType, touchDragId>>

handleTouchStart(product) ==
  /\ stage = 3
  /\ product \in onScreen
  /\ touchDragType' = product.type
  /\ touchDragId' = <<product.id>>
  /\ UNCHANGED <<stage, feedVars, heatVars, coolVars, sortingProgress,
                 sortingComplete, spawnedProducts, losses, productQueue,
                 totalSpawned, spawnIdRef>>

\* handleTouchEnd on the touched product; target is the bin under the
\* finger, or "none"
handleTouchEnd(target) ==
  /\ stage = 3
  /\ IF touchDragType = "null" \/ touchDragId = <<>>
     THEN UNCHANGED <<sortingProgress, sortingComplete, spawnedProducts,
                      losses, touchDragType, touchDragId>>
     ELSE /\ \E p \in onScreen : p.id = touchDragId[1]
          /\ IF target \in ProductTypes
             THEN handleDrop(target, touchDragType, touchDragId[1])
             ELSE UNCHANGED <<sortingProgress, sortingComplete,
                              spawnedProducts, losses>>
          /\ touchDragType' = "null"
          /\ touchDragId' = <<>>
  /\ UNCHANGED <<stage, feedVars, heatVars, coolVars, productQueue,
                 totalSpawned, spawnIdRef>>

\* PROCEED TO COOLING, disabled until sortingComplete
ProceedToCooling ==
  /\ stage = 3
  /\ sortingComplete
  /\ stage' = 4
  /\ UNCHANGED <<feedVars, heatVars, sortVars, coolVars>>

(***************************************************************************)
(* Stage 4: cooling.                                                       *)
(***************************************************************************)
\* both cooling-power sliders: setCoolingPower(parseInt(e.target.value));
\* the second one is disabled once coolingTime >= 15
\* a variant of the slider as it was before it was enabled ahead of the start
CoolingSliderChange_AfterStart(pos) ==
  /\ stage = 4
  /\ coolingStarted /\ ~FloatGeq(coolingTime, Fifteen)
  /\ coolingPower' = parseInt(RangeValue(pos))
  /\ UNCHANGED <<stage, feedVars, heatVars, sortVars, gasTemp, coolingTime,
                 coolingStarted, condensedFuel, condensationParticles,
                 particleIdRef>>

\* a variant that stores the heat loss factor, 1.5 times the slider value
CoolingSliderChange_Scaled(pos) ==
  /\ stage = 4
  /\ coolingStarted => ~FloatGeq(coolingTime, Fifteen)
  /\ coolingPower' = (parseInt(RangeValue(pos)) * 3) \div 2
  /\ UNCHANGED <<stage, feedVars, heatVars, sortVars, gasTemp, coolingTime,
                 coolingStarted, condensedFuel, condensationParticles,
                 particleIdRef>>

CoolingSliderChange(pos) ==
  /\ stage = 4
  /\ coolingStarted => ~FloatGeq(coolingTime, Fifteen)
  /\ coolingPower' = parseInt(RangeValue(pos))
  /\ UNCHANGED <<stage, feedVars, heatVars, sortVars, gasTemp, coolingTime,
                 coolingStarted, condensedFuel, condensationParticles,
                 particleIdRef>>

\* START COOLING, rendered while stage = 4 and cooling has not started
StartCooling ==
  /\ stage = 4
  /\ ~coolingStarted
  /\ coolingStarted' = TRUE
  /\ UNCHANGED <<stage, feedVars, heatVars, sortVars, coolingPower, gasTemp,
                 coolingTime, condensedFuel, condensationParticles,
                 particleIdRef>>

\* a variant with the limit of 20 the TODO file says was replaced
coolingTimerArmed_Twenty ==
  stage = 4 /\ coolingStarted /\ FloatLess(coolingTime, <<20 * 2^26, 0>>)

\* the cooling interval of lines 121-157 is armed
coolingTimerArmed ==
  stage = 4 /\ coolingStarted /\ FloatLess(coolingTime, Fifteen)

\* a variant without the clamp to 15
nextCoolingTime_Unclamped(prev) == FloatAdd(prev, Tenth)

\* the updater of setCoolingTime
nextCoolingTime(prev) ==
  LET next == FloatAdd(prev, Tenth)
  IN IF FloatGeq(next, Fifteen) THEN Fifteen ELSE next

\* a variant without the clamp to [100, 900]
nextGasTemp_Unclamped(prev, power) ==
  prev - (power * 3 * TempScale) \div 2 + 2 * TempScale

\* newTemp = prev - coolingPower * 1.5 + 2, clamped to [100, 900]
nextGasTemp(prev, power) ==
  LET heatLoss == (power * 3 * TempScale) \div 2
      naturalHeat == 2 * TempScale
      newTemp == prev - heatLoss + naturalHeat
  IN MathMax(100 * TempScale, MathMin(900 * TempScale, newTemp))

\* condensationRate = max(0, 1 - |gasTemp - 350| / 300), times 300 * TempScale
condensationRate(temp) ==
  MathMax(0, 300 * TempScale - Abs(temp - 350 * TempScale))

\* condensationEfficiency = max(0, 1 - |gasTemp - 350| / 400), times
\* 400 * TempScale
condensationEfficiency(temp) ==
  MathMax(0, 400 * TempScale - Abs(temp - 350 * TempScale))

\* baseLiquid * 10000
baseLiquid(p) == p * 65 + (100 - p) * 25

\* baseSyngas and baseBiochar of calculateYields, times 10000
baseSyngas(p) == p * 25 + (100 - p) * 35

baseBiochar(p) == p * 10 + (100 - p) * 40

\* fuelIncrement = baseLiquid * condensationEfficiency * 0.8, scaled:
\* (b / 10^4) * (e / 800) * 0.8 * FuelScale = b * e * FuelScale / 10^7
nextCondensedFuel(prev, temp, p) ==
  LET fuelIncrement ==
        baseLiquid(p) * condensationEfficiency(temp) * (FuelScale \div 10000000)
  IN MathMin(prev + fuelIncrement, baseLiquid(p) * 100 * (FuelScale \div 10000))

lastOf(seq, n) ==
  IF Len(seq) <= n THEN seq ELSE SubSeq(seq, Len(seq) - n + 1, Len(seq))

\* one tick of the cooling interval; particle: Math.random() fell below
\* condensationRate * 0.3
CoolingTick(particle) ==
  /\ coolingTimerArmed
  /\ particle => condensationRate(gasTemp) > 0
  /\ coolingTime' = nextCoolingTime(coolingTime)
  /\ gasTemp' = nextGasTemp(gasTemp, coolingPower)
  /\ IF particle
     THEN /\ condensationParticles' =
               Append(lastOf(condensationParticles, 20), particleIdRef)
          /\ particleIdRef' = particleIdRef + 1
     ELSE UNCHANGED <<condensationParticles, particleIdRef>>
  /\ condensedFuel' = nextCondensedFuel(condensedFuel, gasTemp, plasticRatio)
  /\ UNCHANGED <<stage, feedVars, heatVars, sortVars, coolingPower,
                 coolingStarted>>

\* a variant that counts a difference of exactly 80 as optimal
getCoolingFeedback_Inclusive(temp) ==
  IF Abs(temp - 400 * TempScale) <= 80 * TempScale THEN "OPTIMAL"
  ELSE IF temp > 500 * TempScale THEN "TOO HOT"
  ELSE IF temp < 300 * TempScale THEN "TOO COLD"
  ELSE "ADJUSTING..."

\* getCoolingFeedback().text for a gas temperature
getCoolingFeedback(temp) ==
  IF Abs(temp - 400 * TempScale) < 80 * TempScale THEN "OPTIMAL"
  ELSE IF temp > 500 * TempScale THEN "TOO HOT"
  ELSE IF temp < 300 * TempScale THEN "TOO COLD"
  ELSE "ADJUSTING..."

\* the text of the banner on the active cooling screen
feedbackBanner ==
  IF FloatGeq(coolingTime, Fifteen) THEN "COOLING COMPLETE"
  ELSE getCoolingFeedback(gasTemp)

\* VIEW RESULTS, rendered while cooling is active, disabled while
\* coolingTime < 15
ViewResults ==
  /\ stage = 4
  /\ coolingStarted
  /\ ~FloatLess(coolingTime, Fifteen)
  /\ stage' = 5
  /\ UNCHANGED <<feedVars, heatVars, sortVars, coolVars>>

(***************************************************************************)
(* Stage 5: results.                                                       *)
(***************************************************************************)
\* calculateYields. Percentages are kept in hundredths of a percent and
\* rounded down after each product; factors are kept over the denominators
\* named in their comments.
\* heatingFactor = Math.min(1, completeness / 100), times 8000
heatingFactor8000(g) == MathMin(100 * 80, completeness80(g))

\* coolingEfficiency = Math.max(0.3, 1 - |gasTemp - 400| / 500), times 1000
coolingEfficiency1000(temp) ==
  MathMax(300, 1000 - (Abs(temp - 400 * TempScale) * 2) \div TempScale)

\* sortingAccuracy * 100 = sortingRecovery
sortingRecovery100(sp, l) ==
  IF totalSortedOf(sp) > 0
  THEN (totalSortedOf(sp) * 100 * 100) \div (totalSortedOf(sp) + l)
  ELSE 0

\* processEfficiency = uniformityFactor * heatingFactor, times 10000
processEfficiency10000(g) == (uniformity100(g) * heatingFactor8000(g)) \div 8000

liquidFuelYield100(p, g, temp) ==
  (((baseLiquid(p) * processEfficiency10000(g)) \div 10000)
     * coolingEfficiency1000(temp)) \div 1000

syngasYield100(p, g) == (baseSyngas(p) * processEfficiency10000(g)) \div 10000

biocharYield100(p, g) == (baseBiochar(p) * processEfficiency10000(g)) \div 10000

\* processLoss = (losses / 15) * 100
processLoss100(l) == (l * 100 * 100) \div QueueLength

condensationQuality100(temp) == coolingEfficiency1000(temp) * 10

overallEfficiency100(p, g, temp, sp, l) ==
  ((liquidFuelYield100(p, g, temp) + syngasYield100(p, g) + biocharYield100(p, g))
     \div 3 + sortingRecovery100(sp, l) + condensationQuality100(temp)) \div 3

\* (100 * num / den).toFixed(1), in tenths: the nearest tenth, the larger one
\* on a tie
toFixed1(num, den) == (2 * 1000 * num + den) \div (2 * den)

\* results.sortingRecovery and results.processLoss as shown, in tenths
sortingRecoveryShown(sp, l) ==
  IF totalSortedOf(sp) > 0
  THEN toFixed1(totalSortedOf(sp), totalSortedOf(sp) + l)
  ELSE 0

processLossShown(l) == toFixed1(l, QueueLength)

\* the seven percentages of the results screen
resultPercentages ==
  [liquidFuel |-> liquidFuelYield100(plasticRatio, heatGrid, gasTemp),
   syngas |-> syngasYield100(plasticRatio, heatGrid),
   biochar |-> biocharYield100(plasticRatio, heatGrid),
   sortingRecovery |-> sortingRecovery100(sortingProgress, losses),
   condensationQuality |-> condensationQuality100(gasTemp),
   overallEfficiency |->
     overallEfficiency100(plasticRatio, heatGrid, gasTemp, sortingProgress, losses),
   processLoss |-> processLoss100(losses)]

\* a variant that forgets setTotalSpawned(0)
resetGame_KeepsSpawned ==
  /\ stage = 5
  /\ stage' = 0
  /\ plasticRatio' = 50
  /\ heatGrid' = EmptyGrid
  /\ coolingPower' = 50
  /\ gasTemp' = TempScale * 600
  /\ coolingTime' = Zero
  /\ coolingStarted' = FALSE
  /\ condensedFuel' = 0
  /\ condensationParticles' = <<>>
  /\ sortingProgress' = NoProgress
  /\ sortingComplete' = FALSE
  /\ spawnedProducts' = <<>>
  /\ productQueue' = <<>>
  /\ losses' = 0
  /\ spawnIdRef' = 0
  /\ particleIdRef' = 0
  /\ UNCHANGED <<totalSpawned, isDragging, touchDragType, touchDragId>>

\* TRY DIFFERENT INPUTS
resetGame ==
  /\ stage = 5
  /\ stage' = 0
  /\ plasticRatio' = 50
  /\ heatGrid' = EmptyGrid
  /\ coolingPower' = 50
  /\ gasTemp' = TempScale * 600
  /\ coolingTime' = Zero
  /\ coolingStarted' = FALSE
  /\ condensedFuel' = 0
  /\ condensationParticles' = <<>>
  /\ sortingProgress' = NoProgress
  /\ sortingComplete' = FALSE
  /\ spawnedProducts' = <<>>
  /\ losses' = 0
  /\ productQueue' = <<>>
  /\ totalSpawned' = 0
  /\ spawnIdRef' = 0
  /\ particleIdRef' = 0
  /\ UNCHANGED <<isDragging, touchDragType, touchDragId>>

(***************************************************************************)
(* The user and the timers.  Every specification below plays the whole     *)
(* game, stage 0 to stage 5 and the reset; each one lets the user explore  *)
(* the inputs of one screen and play the other screens in one fixed way    *)
(* (default feedstock, a row-major sweep of the grid that stops when       *)
(* PROCEED is enabled, every product dropped on its own bin before the     *)
(* next one spawns, the cooling slider left alone).                        *)
(***************************************************************************)
\* more bounds: products on screen before the next spawn tick; products
\* (by id) the user may drop on a wrong bin; cooling ticks during which the
\* user still moves the slider; drops on a bin of drags that are not products
MaxStrayDrops == 16
MaxOnScreen == 2
MaxMisdrops == 2
MaxAdjustTicks == 2

cellAt(k) == <<k \div GridSize, k % GridSize>>

\* index of the first cell, row-major, at or after k that is not fully heated
RECURSIVE firstColdFrom(_, _)
firstColdFrom(g, k) ==
  IF k >= GridSize * GridSize \/ g[cellAt(k)] < 100 THEN k
  ELSE firstColdFrom(g, k + 1)

\* the cells under a pointer that sweeps the grid row by row: the first
\* cell not fully heated and the reach cells after it
heatTargets(reach) ==
  LET first == firstColdFrom(heatGrid, 0)
  IN {cellAt(k) : k \in first..MathMin(first + reach, GridSize * GridSize - 1)}

proceedDisabled == completeness80(heatGrid) < CompletenessGate * 80

Click(target) == event' = [type |-> "click", target |-> target]

Change(target, value) ==
  event' = [type |-> "change", target |-> target, value |-> value]

\* feedstock screen
TypePlastic ==
  \E text \in Texts :
    PlasticFieldChange(text) /\ Change("plastic field", text)

TypeBiomass ==
  \E text \in Texts :
    BiomassFieldChange(text) /\ Change("biomass field", text)

SlidePlastic ==
  \E pos \in SliderPositions :
    PlasticSliderChange(pos) /\ Change("plastic slider", pos)

SlideBiomass ==
  \E pos \in SliderPositions :
    BiomassSliderChange(pos) /\ Change("biomass slider", pos)

\* the plastic slider moved to any of its 101 positions
SlideAnyRatio ==
  \E pos \in SliderMin..SliderMax :
    PlasticSliderChange(pos) /\ Change("plastic slider", pos)

\* heating screen
SweepHover ==
  /\ proceedDisabled
  /\ \E cell \in heatTargets(0) :
       /\ handleMouseEnter(cell[1], cell[2])
       /\ event' = [type |-> "mouseenter", cell |-> cell]

\* the sweep carried on after PROCEED TO SORTING is enabled
SweepAll ==
  \E cell \in heatTargets(0) :
    /\ handleMouseEnter(cell[1], cell[2])
    /\ event' = [type |-> "mouseenter", cell |-> cell]

Hover ==
  /\ proceedDisabled
  /\ \E cell \in heatTargets(Reach) :
       /\ handleMouseEnter(cell[1], cell[2])
       /\ event' = [type |-> "mouseenter", cell |-> cell]

Press ==
  /\ proceedDisabled
  /\ \E cell \in heatTargets(Reach) :
       /\ handleMouseDown(cell[1], cell[2])
       /\ event' = [type |-> "mousedown", cell |-> cell]

Release ==
  /\ isDragging
  /\ handleMouseUp
  /\ event' = [type |-> "mouseup"]

TouchCell ==
  /\ proceedDisabled
  /\ \E cell \in heatTargets(Reach), kind \in {"touchstart", "touchmove"} :
       /\ handleTouchGrid(cell[1], cell[2])
       /\ event' = [type |-> kind, cell |-> cell]

EnterSorting ==
  \E seed \in 1..MaxSeeds :
    ProceedToSorting(seed) /\ Click("PROCEED TO SORTING")

EnterSortingFixed == ProceedToSorting(1) /\ Click("PROCEED TO SORTING")

\* sorting screen
\* the user proceeds once the whole grid is fully heated
EnterSortingFull ==
  /\ totalHeat(heatGrid) = 100 * GridSize * GridSize
  /\ EnterSortingFixed

SpawnEvent == event' = [type |-> "tick", timer |-> "spawn"]

SpawnWhenClear == spawnedProducts = <<>> /\ SpawnTick /\ SpawnEvent

\* (the user never leaves a product lying while MaxOnScreen newer ones spawn)
SpawnSome ==
  /\ \A product \in onScreen : product.id + MaxOnScreen > totalSpawned
  /\ SpawnTick
  /\ SpawnEvent

DropEvent(bin, product) ==
  event' = [type |-> "drop", bin |-> bin, product |-> product]

DropRight ==
  \E product \in onScreen :
    DropProduct(product.type, product) /\ DropEvent(product.type, product)

\* (the user drags with the mouse only while no finger is down)
DropAnywhere ==
  /\ touchDragId = <<>>
  /\ \E product \in onScreen, bin \in ProductTypes :
       /\ bin # product.type => product.id < MaxMisdrops
       /\ DropProduct(bin, product)
       /\ DropEvent(bin, product)

DropOther ==
  /\ losses < MaxForeignLosses
  /\ \E bin \in ProductTypes :
       DropForeign(bin) /\ event' = [type |-> "foreign drop", bin |-> bin]

\* drags that are not products, dropped on a bin again and again
DropStray ==
  /\ losses < MaxStrayDrops
  /\ \E bin \in ProductTypes :
       DropForeign(bin) /\ event' = [type |-> "foreign drop", bin |-> bin]

TouchProduct ==
  /\ touchDragId = <<>>
  /\ \E product \in onScreen :
       /\ handleTouchStart(product)
       /\ event' = [type |-> "touchstart", product |-> product]

LiftFinger ==
  /\ touchDragId # <<>>
  /\ \E target \in ProductTypes \cup {"none"} :
       /\ (target \in ProductTypes /\ target # touchDragType)
            => touchDragId[1] < MaxMisdrops
       /\ handleTouchEnd(target)
       /\ event' = [type |-> "touchend", bin |-> target, id |-> touchDragId[1]]

\* cooling screen
RECURSIVE timeAfter(_)
timeAfter(n) == IF n = 0 THEN Zero ELSE FloatAdd(timeAfter(n - 1), Tenth)

SlideCooling ==
  /\ FloatLess(coolingTime, timeAfter(MaxAdjustTicks))
  /\ \E pos \in SliderPositions :
       CoolingSliderChange(pos) /\ Change("cooling slider", pos)

CoolingEvent(particle) ==
  event' = [type |-> "tick", timer |-> "cooling", particle |-> particle]

TickDry == CoolingTick(FALSE) /\ CoolingEvent(FALSE)

Tick ==
  \E particle \in BOOLEAN :
    /\ particle => particleIdRef < MaxParticles
    /\ CoolingTick(particle)
    /\ CoolingEvent(particle)

\* the walk-through every specification shares
Walk ==
  \/ StartMission /\ Click("START MISSION")
  \/ StartProcess /\ Click("START PROCESS")
  \/ ProceedToCooling /\ Click("PROCEED TO COOLING")
  \/ StartCooling /\ Click("START COOLING")
  \/ ViewResults /\ Click("VIEW RESULTS")
  \/ resetGame /\ Click("TRY DIFFERENT INPUTS")

\* Spec: a user who moves the feedstock sliders and lets two products pile up
Next ==
  \/ Walk
  \/ SlidePlastic
  \/ SweepHover
  \/ EnterSortingFixed
  \/ SpawnSome
  \/ DropRight
  \/ TickDry

Spec == Init /\ [][Next]_vars

\* SpecFeed: the feedstock screen explored
NextFeed ==
  \/ Walk
  \/ TypePlastic
  \/ TypeBiomass
  \/ SlidePlastic
  \/ SlideBiomass
  \/ SweepHover
  \/ EnterSortingFixed
  \/ SpawnWhenClear
  \/ DropRight
  \/ TickDry

SpecFeed == Init /\ [][NextFeed]_vars

\* SpecHeat: the heating screen explored
NextHeat ==
  \/ Walk
  \/ Hover
  \/ Press
  \/ Release
  \/ TouchCell
  \/ EnterSortingFixed
  \/ SpawnWhenClear
  \/ DropRight
  \/ TickDry

SpecHeat == Init /\ [][NextHeat]_vars

\* SpecSort: the sorting screen explored
NextSort ==
  \/ Walk
  \/ SweepHover
  \/ EnterSorting
  \/ SpawnSome
  \/ DropAnywhere
  \/ DropOther
  \/ TouchProduct
  \/ LiftFinger
  \/ TickDry

SpecSort == Init /\ [][NextSort]_vars

\* SpecCool: the cooling screen explored
NextCool ==
  \/ Walk
  \/ SweepHover
  \/ EnterSortingFixed
  \/ SpawnWhenClear
  \/ DropRight
  \/ SlideCooling
  \/ Tick

SpecCool == Init /\ [][NextCool]_vars

(***************************************************************************)
(* Properties.                                                             *)
(***************************************************************************)

\* every feedstock ratio, then one pass through the game
NextBlend ==
  \/ Walk
  \/ SlideAnyRatio
  \/ SweepHover
  \/ EnterSorting
  \/ SpawnWhenClear
  \/ DropRight
  \/ TickDry

SpecBlend == Init /\ [][NextBlend]_vars

\* every grid a row-by-row sweep produces, up to the fully heated one
NextGrid ==
  \/ Walk
  \/ SweepAll
  \/ Hover
  \/ Press
  \/ Release
  \/ EnterSortingFull
  \/ SpawnWhenClear
  \/ DropRight
  \/ TickDry

SpecGrid == Init /\ [][NextGrid]_vars

\* a game with stray drops on the bins
NextLoss ==
  \/ Walk
  \/ SweepHover
  \/ EnterSortingFixed
  \/ SpawnWhenClear
  \/ DropRight
  \/ DropStray
  \/ TickDry

SpecLoss == Init /\ [][NextLoss]_vars

\* a game in which a touch on a product ends without a touchend (the
\* browser cancels it, or the finger stays down), the products being sorted
\* with the mouse
NextReset ==
  \/ Walk
  \/ SlidePlastic
  \/ SweepHover
  \/ EnterSortingFixed
  \/ SpawnWhenClear
  \/ DropRight
  \/ TouchProduct
  \/ TickDry

SpecReset == Init /\ [][NextReset]_vars

\* C1: the stage is always one of 0..5, and every step that changes it
\* either adds exactly 1 or is the reset from 5 to 0.
C1_StageSequence ==
  [][/\ stage \in 0..5
     /\ stage' \in 0..5
     /\ stage' # stage => (stage' = stage + 1 \/ (stage = 5 /\ stage' = 0))]_vars

\* the results screen of a game played through to the end
C1_Witness ==
  /\ stage = 5
  /\ event = [type |-> "click", target |-> "VIEW RESULTS"]

\* C2: whatever is typed or slid on the feedstock screen, plasticRatio is an
\* integer in 0..100, biomassRatio is in 0..100 and the two sum to 100.
C2_RatioRange ==
  /\ plasticRatio \in 0..100
  /\ biomassRatio \in 0..100
  /\ plasticRatio + biomassRatio = 100

\* an out-of-range number typed into the biomass field was clamped
C2_Witness ==
  /\ event = [type |-> "change", target |-> "biomass field",
              value |-> <<"-", "5">>]
  /\ plasticRatio = 100
  /\ biomassRatio = 0

\* C3: a text that is not a number, typed into the plastic field, sets
\* plasticRatio to 0; typed into the biomass field it sets biomassRatio to 0
\* (plasticRatio 100); plasticRatio is never NaN nor outside 0..100.
C3_InvalidIsZero ==
  /\ plasticRatio # NaN
  /\ plasticRatio \in 0..100
  /\ (event.type = "change" /\ event.target = "plastic field"
        /\ ~IsValidFloat(event.value)) => plasticRatio = 0
  /\ (event.type = "change" /\ event.target = "biomass field"
        /\ ~IsValidFloat(event.value)) => (biomassRatio = 0 /\ plasticRatio = 100)

\* a non-numeric text typed into the biomass field
C3_Witness ==
  /\ event = [type |-> "change", target |-> "biomass field",
              value |-> <<"x">>]
  /\ plasticRatio = 100

isCellEvent(e) ==
  e.type \in {"mouseenter", "mousedown", "touchstart", "touchmove"}

\* C5: the grid is 10 by 10 with every cell in {0, 50, 100}; one interaction
\* with a cell in stage 2 sets it to min(100, old + 50) and leaves the other
\* 99 cells as they were.
C5_HeatGrid ==
  /\ [](/\ DOMAIN heatGrid = (0..9) \X (0..9)
        /\ \A cell \in DOMAIN heatGrid : heatGrid[cell] \in {0, 50, 100})
  /\ [][isCellEvent(event') =>
          /\ stage = 2
          /\ heatGrid'[event'.cell] =
               (IF heatGrid[event'.cell] + 50 > 100 THEN 100
                ELSE heatGrid[event'.cell] + 50)
          /\ \A cell \in DOMAIN heatGrid :
               cell # event'.cell => heatGrid'[cell] = heatGrid[cell]]_vars

\* a press on a fully heated cell next to one that is half heated
C5_Witness ==
  /\ stage = 2
  /\ event.type = "mousedown"
  /\ heatGrid[event.cell] = 100
  /\ \E cell \in Cells : heatGrid[cell] = 50 /\ cell[2] + 1 = event.cell[2]

isCoolingTick(e) == e.type = "tick" /\ e.timer = "cooling"

isSpawnTick(e) == e.type = "tick" /\ e.timer = "spawn"

\* C6: coolingTime starts at 0, every cooling tick adds 0.1 to it, it never
\* exceeds 15, and once it is 15 no tick fires: coolingTime, gasTemp and
\* condensedFuel stay as they are until the reset.
C6_TimerStopsAtFifteen ==
  /\ [](~coolingStarted => coolingTime = Zero)
  /\ [](FloatGeq(Fifteen, coolingTime))
  /\ [][isCoolingTick(event') => coolingTime' = FloatAdd(coolingTime, Tenth)]_vars
  /\ [][(coolingTime = Fifteen /\ stage' # 0) =>
          UNCHANGED <<coolingTime, gasTemp, condensedFuel>>]_vars

\* C7: gasTemp is 600 until cooling starts, every cooling tick sets it to
\* max(100, min(900, gasTemp - 1.5 * coolingPower + 2)) with the current
\* coolingPower, and it is in [100, 900] in every reachable state
\* (half degrees: 1200, 200, 1800, 3 * coolingPower, 4).
C7_GasTempDecay ==
  /\ [](~coolingStarted => gasTemp = 1200)
  /\ [](gasTemp >= 200 /\ gasTemp <= 1800)
  /\ [][isCoolingTick(event') =>
          LET t == gasTemp - 3 * coolingPower + 4
          IN gasTemp' = (IF t < 200 THEN 200 ELSE IF t > 1800 THEN 1800 ELSE t)]_vars

\* the tick that would take the gas above 900 degrees
C7_Witness ==
  /\ isCoolingTick(event)
  /\ coolingPower = 0
  /\ gasTemp = 1800
  /\ coolingTime = Fifteen

\* C8: a spawn tick happens only while stage = 3 and sorting is not complete,
\* a cooling tick only while stage = 4, cooling has started and
\* coolingTime < 15; in every other state no tick changes totalSpawned,
\* spawnedProducts, coolingTime, gasTemp or condensedFuel.
C8_TimersTornDown ==
  /\ [][isSpawnTick(event') => (stage = 3 /\ ~sortingComplete)]_vars
  /\ [][isCoolingTick(event') =>
          (stage = 4 /\ coolingStarted /\ FloatLess(coolingTime, Fifteen))]_vars
  /\ [][(event'.type = "tick" /\ ~(stage = 3 /\ ~sortingComplete)) =>
          UNCHANGED <<totalSpawned, spawnedProducts>>]_vars
  /\ [][(event'.type = "tick"
           /\ ~(stage = 4 /\ coolingStarted /\ FloatLess(coolingTime, Fifteen))) =>
          UNCHANGED <<coolingTime, gasTemp, condensedFuel>>]_vars
  /\ [](stage = 5 => ~spawnTimerArmed /\ ~coolingTimerArmed)

\* the results screen, both timers having run to their end
C8_Witness ==
  /\ stage = 5
  /\ totalSpawned = 15
  /\ coolingTime = Fifteen
  /\ sortingComplete

\* C9: the two timers are never armed in the same state; a spawn tick
\* leaves coolingTime, gasTemp, condensedFuel and condensationParticles as
\* they are, a cooling tick leaves totalSpawned and spawnedProducts as they
\* are.
C9_TimersDisjoint ==
  /\ [](~(spawnTimerArmed /\ coolingTimerArmed))
  /\ [][isSpawnTick(event') =>
          UNCHANGED <<coolingTime, gasTemp, condensedFuel,
                      condensationParticles>>]_vars
  /\ [][isCoolingTick(event') => UNCHANGED <<totalSpawned, spawnedProducts>>]_vars

\* a cooling tick that wrote all of its variables, after 15 spawn ticks
C9_Witness ==
  /\ isCoolingTick(event)
  /\ event.particle
  /\ condensationParticles # <<>>
  /\ condensedFuel > 0
  /\ totalSpawned = 15

\* the product a drop or a lifted finger carries, as a set (empty if none)
droppedBy(e, products) ==
  IF e.type = "drop" THEN {e.product}
  ELSE IF e.type = "touchend" /\ e.bin \in ProductTypes
       THEN {q \in products : q.id = e.id}
  ELSE {}

keepOthers(ps, id) ==
  LET other(q) == q.id # id IN SelectSeq(ps, other)

\* C10: a product dropped on the bin of its type adds 1 to that bin's count
\* and changes neither losses nor the other counts; dropped on another bin
\* it adds 1 to losses and changes no count; either way exactly that product
\* leaves the screen and every other product stays.
C10_DropMatchesBin ==
  [][\A p \in droppedBy(event', onScreen) :
       /\ p.type = event'.bin =>
            /\ sortingProgress'[event'.bin] = sortingProgress[event'.bin] + 1
            /\ \A b \in ProductTypes \ {event'.bin} :
                 sortingProgress'[b] = sortingProgress[b]
            /\ losses' = losses
       /\ p.type # event'.bin =>
            /\ losses' = losses + 1
            /\ sortingProgress' = sortingProgress
       /\ spawnedProducts' = keepOthers(spawnedProducts, p.id)
       /\ Len(spawnedProducts') = Len(spawnedProducts) - 1]_vars

\* a product dropped on a wrong bin while another one is on screen
C10_Witness ==
  /\ event.type = "drop"
  /\ event.product.type # event.bin
  /\ losses = 1
  /\ Len(spawnedProducts) = 1
  /\ spawnedProducts[1].id # event.product.id

\* the type the claim assigns to a roll, shares in units of 1/10000
typeByInterval(roll, oil, gas) ==
  IF roll >= 0 /\ roll < oil THEN "liquidFuel"
  ELSE IF roll >= oil /\ roll < oil + gas THEN "syngas"
  ELSE "biochar"

RECURSIVE sumOfSquares(_, _)
sumOfSquares(g, cells) ==
  IF cells = {} THEN 0
  ELSE LET cell == CHOOSE c \in cells : TRUE
       IN g[cell] * g[cell] + sumOfSquares(g, cells \ {cell})

\* C12: uniformity = max(0, 100 - stdDev) with stdDev the square root of the
\* population variance (mean of the squares minus the square of the mean)
\* of the 100 cells; stdDev <= 50, uniformity is in [50, 100] and is 100
\* exactly when all cells are equal.
C12_Uniformity ==
  \E total \in {totalHeat(heatGrid)}, std100 \in {stdDev100(heatGrid)},
     uniformity \in {uniformity100(heatGrid)} :
    \E var400 \in {4 * sumOfSquares(heatGrid, DOMAIN heatGrid) - (total * total) \div 25} :
     /\ variance400(heatGrid) = var400
     /\ std100 * std100 <= 25 * var400
     /\ 25 * var400 < (std100 + 1) * (std100 + 1)
     /\ std100 <= 50 * 100
     /\ uniformity = 100 * 100 - std100
     /\ uniformity >= 50 * 100 /\ uniformity <= 100 * 100
     /\ uniformity = 100 * 100
          <=> \A cell \in DOMAIN heatGrid : heatGrid[cell] = heatGrid[<<0, 0>>]

\* half of the cells fully heated, the other half cold: the largest
\* standard deviation
C12_Witness ==
  /\ stage = 2
  /\ totalHeat(heatGrid) = 5000
  /\ uniformity100(heatGrid) = 50 * 100

\* C13: on the cooling screen, before START COOLING, the slider can be moved
\* and a change event stores its value in coolingPower, while gasTemp is
\* 600, coolingTime 0 and condensedFuel 0 (gasTemp in half degrees).
C13_PreStartSlider ==
  (stage = 4 /\ ~coolingStarted) =>
    /\ gasTemp = 1200
    /\ coolingTime = <<0, 0>>
    /\ condensedFuel = 0
    /\ \A pos \in {0, 100} :
         ENABLED (/\ CoolingSliderChange(pos)
                  /\ Change("cooling slider", pos)
                  /\ coolingPower' = pos
                  /\ UNCHANGED <<gasTemp, coolingTime, condensedFuel,
                                 coolingStarted>>)
    /\ (event.type = "change" /\ event.target = "cooling slider")
         => coolingPower = event.value

\* the slider at its maximum before the start
C13_Witness ==
  /\ stage = 4
  /\ ~coolingStarted
  /\ event = [type |-> "change", target |-> "cooling slider", value |-> 100]
  /\ coolingPower = 100
  /\ gasTemp = 1200

\* C14: on the results screen each of the seven percentages (the three
\* yields, sorting recovery, condensation quality, overall efficiency and
\* sorting losses) is in [0, 100], here in hundredths of a percent.
C14_PercentagesValid ==
  stage = 5 =>
    \A name \in DOMAIN resultPercentages :
      resultPercentages[name] >= 0 /\ resultPercentages[name] <= 100 * 100

\* the label the claim gives a temperature, in half degrees
claimedLabel(t) ==
  IF t > 640 /\ t < 960 THEN "OPTIMAL"
  ELSE IF t > 1000 THEN "TOO HOT"
  ELSE IF t < 600 THEN "TOO COLD"
  ELSE "ADJUSTING..."

\* C15: every temperature in [100, 900] gets exactly one label: OPTIMAL iff
\* |gasTemp - 400| < 80, else TOO HOT iff gasTemp > 500, TOO COLD iff
\* gasTemp < 300, ADJUSTING... exactly on [300, 320] and [480, 500]; while
\* cooling runs the banner shows the label of the current gasTemp, and
\* COOLING COMPLETE once coolingTime is 15.
C15_Feedback ==
  /\ \A t \in 200..1800 :
       /\ getCoolingFeedback(t) = claimedLabel(t)
       /\ getCoolingFeedback(t) = "ADJUSTING..."
            <=> (t \in 600..640 \/ t \in 960..1000)
  /\ (stage = 4 /\ coolingStarted) =>
       feedbackBanner = (IF coolingTime = <<15 * 2^26, 0>> THEN "COOLING COMPLETE"
                         ELSE claimedLabel(gasTemp))

\* the banner shows ADJUSTING... at 308 degrees
C15_Witness ==
  /\ stage = 4
  /\ coolingStarted
  /\ gasTemp = 616
  /\ feedbackBanner = "ADJUSTING..."

isReset(e) == e.type = "click" /\ e.target = "TRY DIFFERENT INPUTS"

\* the variables the claim lists have their initial values
listedAreInitial ==
  /\ stage = 0
  /\ plasticRatio = 50
  /\ \A cell \in DOMAIN heatGrid : heatGrid[cell] = 0
  /\ coolingPower = 50
  /\ gasTemp = 1200
  /\ coolingTime = <<0, 0>>
  /\ coolingStarted = FALSE
  /\ condensedFuel = 0
  /\ condensationParticles = <<>>
  /\ \A type \in DOMAIN sortingProgress : sortingProgress[type] = 0
  /\ sortingComplete = FALSE
  /\ spawnedProducts = <<>>
  /\ losses = 0
  /\ productQueue = <<>>
  /\ totalSpawned = 0
  /\ spawnIdRef = 0
  /\ particleIdRef = 0

\* C16 as stated: resetGame runs only on the results screen and leaves the
\* complete state of the component as it is after construction.
C16_ResetRestoresAll ==
  /\ [][isReset(event') => stage = 5]_vars
  /\ [](isReset(event) =>
          /\ listedAreInitial
          /\ isDragging = FALSE
          /\ touchDragType = "null"
          /\ touchDragId = <<>>)

\* C16, amended: resetGame runs only on the results screen and gives the
\* variables the claim lists their initial values; isDragging, touchDragType
\* and touchDragId are left as they were.
C16_ResetRestoresListed ==
  /\ [][isReset(event') =>
          /\ stage = 5
          /\ UNCHANGED <<isDragging, touchDragType, touchDragId>>]_vars
  /\ [](isReset(event) => listedAreInitial)

\* after a reset, with the product touched in the last game still recorded
C16_Witness ==
  /\ isReset(event)
  /\ listedAreInitial
  /\ touchDragId # <<>>
  /\ touchDragType # "null"

\* sum of the cells of a grid
RECURSIVE gridHeat(_, _)
gridHeat(g, cells) ==
  IF cells = {} THEN 0
  ELSE LET cell == CHOOSE c \in cells : TRUE
       IN g[cell] + gridHeat(g, cells \ {cell})

\* C17: stage 3 is entered only with completeness >= 70, that is with a
\* total grid heat of at least 5600; the grid does not change from stage 3
\* on until the reset, so in every state with stage >= 3 the total heat is
\* at least 5600 and completeness (80 times it here) at least 70.
C17_SortingNeedsHeat ==
  /\ [][(stage = 2 /\ stage' = 3) =>
          gridHeat(heatGrid, DOMAIN heatGrid) >= 5600]_vars
  /\ [][(stage >= 3 /\ stage' >= 3) => heatGrid' = heatGrid]_vars
  /\ [](stage >= 3 =>
          /\ gridHeat(heatGrid, DOMAIN heatGrid) >= 5600
          /\ completeness80(heatGrid) >= 70 * 80)

\* the sorting screen entered with completeness exactly 70
C17_Witness ==
  /\ stage = 3
  /\ event = [type |-> "click", target |-> "PROCEED TO SORTING"]
  /\ totalHeat(heatGrid) = 5600

\* C18: in every state with stage >= 4 sortingComplete is true, totalSpawned
\* is 15 and the sorted counts plus the losses are at least 15; stage 4 is
\* entered only from such a state.
C18_CoolingNeedsSorting ==
  /\ [][(stage = 3 /\ stage' = 4) =>
          /\ sortingComplete
          /\ totalSpawned = 15
          /\ sortingProgress.biochar + sortingProgress.syngas
               + sortingProgress.liquidFuel + losses >= 15]_vars
  /\ [](stage >= 4 =>
          /\ sortingComplete
          /\ totalSpawned = 15
          /\ sortingProgress.biochar + sortingProgress.syngas
               + sortingProgress.liquidFuel + losses >= 15)

\* the cooling screen entered after 15 products and one stray drop
C18_Witness ==
  /\ stage = 4
  /\ event = [type |-> "click", target |-> "PROCEED TO COOLING"]
  /\ totalSortedOf(sortingProgress) + losses = 16

\* C19: in every state with stage = 5 cooling has started and coolingTime
\* is exactly 15; stage 5 is entered only from such a state.
C19_ResultsNeedCooling ==
  /\ [][(stage = 4 /\ stage' = 5) =>
          (coolingStarted /\ coolingTime = <<15 * 2^26, 0>>)]_vars
  /\ [](stage = 5 => (coolingStarted /\ coolingTime = <<15 * 2^26, 0>>))

\* the results screen after a run with the slider at its maximum
C19_Witness ==
  /\ stage = 5
  /\ coolingStarted
  /\ coolingPower = 100
  /\ gasTemp = 200

\* C20: entering stage 3 generates a queue of exactly 15 product types,
\* which does not change during the stage; a spawn tick adds exactly one
\* product, of type productQueue[totalSpawned] (counting from 0), and adds 1
\* to totalSpawned; totalSpawned never exceeds 15; the products on screen
\* have distinct ids and every new id is one no earlier product of the game
\* had (the ids are the values of a counter that only grows until the
\* reset).
C20_SpawnQueue ==
  /\ [][(stage = 2 /\ stage' = 3) =>
          /\ productQueue = <<>>
          /\ Len(productQueue') = 15
          /\ \A i \in 1..15 : productQueue'[i] \in ProductTypes]_vars
  /\ [][(stage = 3 /\ stage' = 3) => productQueue' = productQueue]_vars
  /\ [][isSpawnTick(event') =>
          /\ totalSpawned' = totalSpawned + 1
          /\ Len(spawnedProducts') = Len(spawnedProducts) + 1
          /\ SubSeq(spawnedProducts', 1, Len(spawnedProducts)) = spawnedProducts
          /\ spawnedProducts'[Len(spawnedProducts')].type
               = productQueue[totalSpawned + 1]
          /\ spawnedProducts'[Len(spawnedProducts')].id = spawnIdRef
          /\ spawnIdRef' = spawnIdRef + 1]_vars
  /\ [][spawnIdRef' # spawnIdRef =>
          (isSpawnTick(event') \/ (stage' = 0 /\ spawnIdRef' = 0))]_vars
  /\ [](/\ totalSpawned \in 0..15
        /\ \A i \in 1..Len(spawnedProducts) :
             /\ spawnedProducts[i].id < spawnIdRef
             /\ \A j \in 1..Len(spawnedProducts) :
                  i # j => spawnedProducts[i].id # spawnedProducts[j].id)

\* the last product spawned while an earlier one is still on screen
C20_Witness ==
  /\ isSpawnTick(event)
  /\ totalSpawned = 15
  /\ Len(spawnedProducts) = 2
  /\ spawnedProducts[2].id = 14

\* sorted + losses >= 15 and totalSpawned >= 15
allAccounted ==
  /\ sortingProgress.biochar + sortingProgress.syngas
       + sortingProgress.liquidFuel + losses >= 15
  /\ totalSpawned >= 15

\* C21: sortingComplete is true exactly in the states in which
\* sorted + losses >= 15 and totalSpawned >= 15 (neither count decreases
\* before the reset, so "has held" and "holds" agree); it becomes true only
\* in a step that makes the condition true, and becomes false again only by
\* resetGame.
C21_CompleteWhenAccounted ==
  /\ [](sortingComplete <=> allAccounted)
  /\ [][(~sortingComplete /\ sortingComplete') =>
          (~allAccounted /\ allAccounted')]_vars
  /\ [][(sortingComplete /\ ~sortingComplete') => isReset(event')]_vars
  /\ [][~isReset(event') =>
          /\ totalSpawned' >= totalSpawned
          /\ losses' >= losses
          /\ \A type \in DOMAIN sortingProgress :
               sortingProgress'[type] >= sortingProgress[type]]_vars

\* the drop that completes the sorting, one product having gone to a wrong bin
C21_Witness ==
  /\ stage = 3
  /\ event.type = "drop"
  /\ sortingComplete
  /\ losses = 1
  /\ totalSortedOf(sortingProgress) = 14

\* C22: in every state sorted + losses + the number of products on screen
\* is totalSpawned; every drop that is counted removes a product; no product
\* is on screen when sortingComplete becomes true.
C22_Conservation ==
  /\ [](sortingProgress.biochar + sortingProgress.syngas
          + sortingProgress.liquidFuel + losses + Len(spawnedProducts)
        = totalSpawned)
  /\ [][(losses' # losses \/ sortingProgress' # sortingProgress)
          /\ ~isReset(event') =>
          Len(spawnedProducts') = Len(spawnedProducts) - 1]_vars
  /\ [][(~sortingComplete /\ sortingComplete') => spawnedProducts' = <<>>]_vars

\* C23: on the results screen sorted + losses is exactly 15, and the
\* sorting accuracy and the sorting losses shown add up to 100 % (1000
\* tenths).
C23_ResultsAddUp ==
  stage = 5 =>
    /\ sortingProgress.biochar + sortingProgress.syngas
         + sortingProgress.liquidFuel + losses = 15
    /\ sortingRecoveryShown(sortingProgress, losses) + processLossShown(losses)
         = 1000

\* SpecSortLive: the sorting screen with a spawn interval that keeps firing
\* and a user who keeps dropping what is on screen onto some bin, with the
\* mouse or by lifting the finger over a bin
fingerOnProduct ==
  touchDragId # <<>> /\ \E product \in onScreen : product.id = touchDragId[1]

\* a touch may start on any product, whatever an earlier touch left behind
TouchAnew ==
  /\ ~fingerOnProduct
  /\ \E product \in onScreen :
       /\ handleTouchStart(product)
       /\ event' = [type |-> "touchstart", product |-> product]

\* (the user drags with the mouse only while no finger is on a product)
DropByMouse ==
  /\ ~fingerOnProduct
  /\ \E product \in onScreen, bin \in ProductTypes :
       /\ bin # product.type => product.id < MaxMisdrops
       /\ DropProduct(bin, product)
       /\ DropEvent(bin, product)

DropSomewhere ==
  \/ DropByMouse
  \/ LiftFinger /\ event'.bin \in ProductTypes

NextSortLive ==
  \/ Walk
  \/ SweepHover
  \/ EnterSortingFixed
  \/ SpawnSome
  \/ DropByMouse
  \/ DropOther
  \/ TouchAnew
  \/ LiftFinger
  \/ TickDry

SpecSortLive ==
  /\ Init
  /\ [][NextSortLive]_vars
  /\ WF_vars(SpawnSome)
  /\ WF_vars(DropSomewhere)

\* C24: from every state of the sorting screen, with the spawn interval
\* firing and the user dropping every product onto some bin, sortingComplete
\* becomes true and PROCEED TO COOLING is enabled.
C24_SortingFinishes ==
  (stage = 3) ~> (stage = 3 /\ sortingComplete /\ ENABLED ProceedToCooling)

C24_Witness ==
  /\ stage = 3 /\ sortingComplete /\ ENABLED ProceedToCooling
  /\ event.type = "touchend" /\ event.bin \in ProductTypes
  /\ totalSpawned = 15 /\ spawnedProducts = <<>>

\* SpecCoolLive: the cooling screen with the scheduling the cooling effect
\* gives its interval.  coolingPower is one of the effect's dependencies
\* (line 157), so a change of the slider clears the interval and creates a
\* new one that fires 100 ms later: an armed interval fires unless a change
\* of the power re-arms it first.
IntervalFiresOrRearmed ==
  \/ Tick
  \/ SlideCooling

SpecCoolLive ==
  /\ SpecCool
  /\ WF_vars(IntervalFiresOrRearmed)

\* C25: once START COOLING is pressed, coolingTime reaches 15 and VIEW
\* RESULTS is enabled, whatever changes of the cooling power the user makes.
C25_CoolingFinishes ==
  (stage = 4 /\ coolingStarted)
    ~> (coolingTime = Fifteen /\ ENABLED ViewResults)

====
